---- MODULE Spec2Model ----
(***************************************************************************)
(* A model of langbot.py: the settings cache and the chat-membership       *)
(* cache in front of Redis, the translation call with its clean-up         *)
(* pipeline, and the fan-out of one group message to the chat's members.   *)
(*                                                                         *)
(* Python values are modelled as follows.                                  *)
(*   str        a TLA+ string for ids and keys; a sequence of one-char     *)
(*              strings for message and translation texts                  *)
(*   None       the value None                                             *)
(*   dict       a function whose DOMAIN is the set of keys                 *)
(*   bytes      <<"bytes", s>> for the str s that was encoded              *)
(*   object     [val, id]: a dict and the identity of the object holding   *)
(*              it, so that "the same object" and "a copy" differ          *)
(*   Redis key  the tuple of its ':'-separated parts                       *)
(* Every Redis call of an operation takes a flag saying whether the call   *)
(* succeeds (TRUE) or raises (FALSE).                                      *)
(***************************************************************************)
EXTENDS Integers, Sequences, FiniteSets, TLC

VARIABLES
    user_settings_cache,   \* langbot.py:43  {user_id_str: settings}
    chat_members_cache,    \* langbot.py:44  {chat_id_str: set(user_id_str)}
    cache_last_updated,    \* langbot.py:45  time of the last cache update
    redis,                 \* the contents of the Redis server
    now,                   \* time.time()
    handling,              \* the process_message call in progress, or the last one
                           \* (SpecHandlers: each handler's call)
    last,                  \* what the last completed store operation did
    added,                 \* history: the ids passed to add_user_to_chat, by chat
    last_advance,          \* history: the last time written to cache_last_updated
    used                   \* how much of each bound the behaviour has used

vars == <<user_settings_cache, chat_members_cache, cache_last_updated, redis,
          now, handling, last, added, last_advance, used>>

-----------------------------------------------------------------------------
(* Bounds of the model *)

MaxUser == 3
MaxGroup == 1
MaxTicks == 2
MaxOps == 1           \* updates handled after the start of the process
MaxFailures == 1      \* calls of Redis or Telegram that raise
MaxLen == 3           \* characters in an answer of the remote model

(* Program constants *)

CACHE_TTL == 3600

VALID_MODES == {"overlay", "off"}

-----------------------------------------------------------------------------
(* Values *)

None == "None"

UserIds == 1..MaxUser

\* Telegram gives group chats negative ids.
GroupIds == {-g : g \in 1..MaxGroup}

Languages == {"Spanish"}

Digits == <<"0", "1", "2", "3", "4", "5", "6", "7", "8", "9">>

RECURSIVE str(_)
str(n) ==
    IF n < 0 THEN "-" \o str(-n)
    ELSE IF n < 10 THEN Digits[n + 1]
    ELSE str(n \div 10) \o Digits[(n % 10) + 1]

\* int(s) for the decimal string of an id
int(s) == CHOOSE n \in (-MaxGroup)..MaxUser : str(n) = s

encode(s) == <<"bytes", s>>

decode(b) == b[2]

SettingsDicts == [language : Languages \cup {None}, mode : VALID_MODES]

json_value(v) == IF v = None THEN "null" ELSE "\"" \o v \o "\""

json_dumps(d) ==
    "{\"language\": " \o json_value(d.language) \o ", \"mode\": "
        \o json_value(d.mode) \o "}"

\* json.loads raises on a text that is no JSON document.
JsonValid(b) == \E d \in SettingsDicts : json_dumps(d) = decode(b)

json_loads(b) == CHOOSE d \in SettingsDicts : json_dumps(d) = decode(b)

UserKey(user_id_str) == <<"user", user_id_str>>

MembersKey(chat_id_str) == <<"chat", chat_id_str, "members">>

-----------------------------------------------------------------------------
(* The Redis server: a map from keys to values. *)

\* What redis_client.get gives for a key that does not exist (None), as a
\* value that compares with bytes.
Nil == <<>>

redis_get(r, key) == IF key \in DOMAIN r THEN r[key] ELSE Nil

\* "if settings_json:" is false for None and for empty bytes.
Truthy(b) == b # Nil /\ decode(b) # ""

\* a set that stores nothing
redis_set_lost(r, key, value) == r

redis_set(r, key, value) == (key :> encode(value)) @@ r

redis_smembers(r, key) == IF key \in DOMAIN r THEN r[key] ELSE {}

\* an add that takes out a member that is in the set
redis_sadd_toggle(r, key, member) ==
    (key :> IF encode(member) \in redis_smembers(r, key)
            THEN redis_smembers(r, key) \ {encode(member)}
            ELSE redis_smembers(r, key) \cup {encode(member)}) @@ r

redis_sadd(r, key, member) ==
    (key :> (redis_smembers(r, key) \cup {encode(member)})) @@ r

\* scan(match="chat:*:members"), all pages
redis_scan(r) ==
    {key \in DOMAIN r : Len(key) = 3 /\ key[1] = "chat" /\ key[3] = "members"}

-----------------------------------------------------------------------------
(* The caches. A world w is the four pieces of state the functions share.  *)

World == [usc |-> user_settings_cache, cmc |-> chat_members_cache,
          clu |-> cache_last_updated, redis |-> redis]

add_user_to_chat(w, user_id, chat_id, sadd_ok) ==
    LET user_id_str == str(user_id)
        chat_id_str == str(chat_id)
        cmc1 == IF chat_id_str \notin DOMAIN w.cmc
                THEN (chat_id_str :> {}) @@ w.cmc
                ELSE w.cmc
        cmc2 == [cmc1 EXCEPT ![chat_id_str] = @ \cup {user_id_str}]
    IN  [w EXCEPT !.cmc = cmc2,
                  !.redis = IF sadd_ok
                            THEN redis_sadd(@, MembersKey(chat_id_str), user_id_str)
                            ELSE @]

get_chat_members(w, chat_id, smembers_ok) ==
    LET chat_id_str == str(chat_id)
        member_strings ==
            {decode(m) : m \in redis_smembers(w.redis, MembersKey(chat_id_str))}
    IN  IF chat_id_str \in DOMAIN w.cmc
        THEN [w |-> w, ret |-> w.cmc[chat_id_str], reads |-> 0]
        ELSE IF smembers_ok
        THEN [w |-> [w EXCEPT !.cmc = (chat_id_str :> member_strings) @@ @],
              ret |-> member_strings, reads |-> 1]
        ELSE [w |-> w, ret |-> {}, reads |-> 1]

\* a reset of the clock alone
reset_cache_clock_only(w) == [w EXCEPT !.clu = 0]

reset_cache(w) == [w EXCEPT !.usc = <<>>, !.cmc = <<>>, !.clu = 0]

\* never stale
is_cache_stale_never(w, current_time) == FALSE

\* stale as soon as any time has passed
is_cache_stale_early(w, current_time) == (current_time - w.clu) > 0

\* stale only after twice the TTL
is_cache_stale_late(w, current_time) == (current_time - w.clu) > 2 * CACHE_TTL

is_cache_stale(w, current_time) == (current_time - w.clu) > CACHE_TTL

-----------------------------------------------------------------------------
(* Settings. get_user_settings returns the world it leaves, the object it  *)
(* returns (ret), whether that object is the one the cache holds (alias),  *)
(* whether it raised, and the Redis calls it made.                         *)

default_settings == [language |-> None, mode |-> "off"]

\* no copy: the object itself
dict_same(obj) == obj

\* dict.copy(): the same contents in a new object
dict_copy(obj) == [val |-> obj.val, id |-> "copy"]

get_user_settings(w, user_id, current_time, get_ok, set_ok) ==
    LET user_id_str == str(user_id)
        settings_json == redis_get(w.redis, UserKey(user_id_str))
        cached == [val |-> w.usc[user_id_str], id |-> "cached"]
        settings == [val |-> json_loads(settings_json), id |-> "loaded"]
        fresh == [val |-> default_settings, id |-> "default"]
    IN  IF user_id_str \in DOMAIN w.usc /\ ~is_cache_stale(w, current_time)
        THEN [w |-> w, ret |-> dict_copy(cached),
              alias |-> dict_copy(cached).id = cached.id, raised |-> FALSE,
              reads |-> 0, writes |-> 0, path |-> "cache"]
        ELSE IF ~get_ok
        THEN [w |-> w, ret |-> fresh, alias |-> FALSE, raised |-> TRUE,
              reads |-> 1, writes |-> 0, path |-> "raise_get"]
        ELSE IF Truthy(settings_json) /\ JsonValid(settings_json)
        THEN [w |-> [w EXCEPT !.usc = (user_id_str :> dict_copy(settings).val) @@ @],
              ret |-> settings,
              alias |-> dict_copy(settings).id = settings.id, raised |-> FALSE,
              reads |-> 1, writes |-> 0, path |-> "store"]
        ELSE IF ~set_ok
        THEN [w |-> w, ret |-> fresh, alias |-> FALSE, raised |-> TRUE,
              reads |-> 1, writes |-> 0, path |-> "raise_set"]
        ELSE [w |-> [w EXCEPT
                       !.redis = redis_set(@, UserKey(user_id_str),
                                           json_dumps(default_settings)),
                       !.usc = (user_id_str :> dict_copy(fresh).val) @@ @],
              ret |-> fresh,
              alias |-> dict_copy(fresh).id = fresh.id, raised |-> FALSE,
              reads |-> 1, writes |-> 1, path |-> "default"]

\* the cache takes the new settings before the store is written
update_user_settings_cache_first(w, user_id, key, value, current_time, get_ok, set_ok, save_ok) ==
    LET user_id_str == str(user_id)
        got == get_user_settings(w, user_id, current_time, get_ok, set_ok)
        settings == [got.ret.val EXCEPT ![key] = value]
        cached == [got.w EXCEPT !.usc = (user_id_str :> settings) @@ @]
        saved == [cached EXCEPT
                    !.redis = redis_set(@, UserKey(user_id_str), json_dumps(settings)),
                    !.clu = current_time]
    IN  IF got.raised
        THEN [w |-> got.w, got |-> got, mutated |-> got.w, raised |-> TRUE,
              saved |-> FALSE]
        ELSE [w |-> IF save_ok THEN saved ELSE cached, got |-> got,
              mutated |-> got.w, raised |-> FALSE, saved |-> save_ok]

\* only the field that is set is kept, the other gets its default
update_user_settings_field_only(w, user_id, key, value, current_time, get_ok, set_ok, save_ok) ==
    LET user_id_str == str(user_id)
        got == get_user_settings(w, user_id, current_time, get_ok, set_ok)
        settings == [default_settings EXCEPT ![key] = value]
        saved == [got.w EXCEPT
                    !.redis = redis_set(@, UserKey(user_id_str), json_dumps(settings)),
                    !.usc = (user_id_str :> settings) @@ @,
                    !.clu = current_time]
    IN  IF got.raised
        THEN [w |-> got.w, got |-> got, mutated |-> got.w, raised |-> TRUE,
              saved |-> FALSE]
        ELSE [w |-> IF save_ok THEN saved ELSE got.w, got |-> got,
              mutated |-> got.w, raised |-> FALSE, saved |-> save_ok]

\* the write leaves the staleness clock alone
update_user_settings_no_clock(w, user_id, key, value, current_time, get_ok, set_ok, save_ok) ==
    LET user_id_str == str(user_id)
        got == get_user_settings(w, user_id, current_time, get_ok, set_ok)
        settings == [got.ret.val EXCEPT ![key] = value]
        saved == [got.w EXCEPT
                    !.redis = redis_set(@, UserKey(user_id_str), json_dumps(settings)),
                    !.usc = (user_id_str :> settings) @@ @]
    IN  IF got.raised
        THEN [w |-> got.w, got |-> got, mutated |-> got.w, raised |-> TRUE,
              saved |-> FALSE]
        ELSE [w |-> IF save_ok THEN saved ELSE got.w, got |-> got,
              mutated |-> got.w, raised |-> FALSE, saved |-> save_ok]

\* update_user_settings returns the world it leaves, what its call of
\* get_user_settings did (got), the world right after "settings[key] = value"
\* (mutated) and whether the write to Redis succeeded (saved).
update_user_settings(w, user_id, key, value, current_time, get_ok, set_ok, save_ok) ==
    LET user_id_str == str(user_id)
        got == get_user_settings(w, user_id, current_time, get_ok, set_ok)
        settings == [got.ret.val EXCEPT ![key] = value]
        \* settings[key] = value changes the cache too when settings is the
        \* object the cache holds
        mutated == IF got.alias
                   THEN [got.w EXCEPT !.usc = (user_id_str :> settings) @@ @]
                   ELSE got.w
        saved == [mutated EXCEPT
                    !.redis = redis_set(@, UserKey(user_id_str), json_dumps(settings)),
                    !.usc = (user_id_str :> settings) @@ @,
                    !.clu = current_time]
    IN  IF got.raised
        THEN [w |-> got.w, got |-> got, mutated |-> got.w, raised |-> TRUE,
              saved |-> FALSE]
        ELSE IF save_ok
        THEN [w |-> saved, got |-> got, mutated |-> mutated, raised |-> FALSE,
              saved |-> TRUE]
        ELSE [w |-> mutated, got |-> got, mutated |-> mutated, raised |-> FALSE,
              saved |-> FALSE]

-----------------------------------------------------------------------------
(* The full refresh. A plan says which Redis calls of one refresh succeed: *)
(* the scan, each chat's smembers, and for each chat the members whose     *)
(* settings were read before a get raised (all of them when none did; the  *)
(* loop over a set visits the members in any order).                       *)

ChatPlans(r, key) ==
    {[smembers_ok |-> FALSE, loaded |-> {}]} \cup
    {[smembers_ok |-> TRUE, loaded |-> L] :
        L \in SUBSET {decode(m) : m \in redis_smembers(r, key)}}

RefreshPlans(r) ==
    LET keys == redis_scan(r)
        all == UNION {ChatPlans(r, k) : k \in keys}
    IN  {[scan_ok |-> FALSE, chats |-> [k \in keys |-> [smembers_ok |-> FALSE, loaded |-> {}]]]}
        \cup {[scan_ok |-> TRUE, chats |-> f] :
                f \in {g \in [keys -> all] : \A k \in keys : g[k] \in ChatPlans(r, k)}}

NoFailure(r) ==
    [scan_ok |-> TRUE,
     chats |-> [k \in redis_scan(r) |->
                  [smembers_ok |-> TRUE,
                   loaded |-> {decode(m) : m \in redis_smembers(r, k)}]]]

\* the number of chats of which a call of the plan raises
PlanFailed(r, plan) ==
    IF ~plan.scan_ok THEN 1
    ELSE Cardinality({k \in redis_scan(r) : plan.chats[k] # NoFailure(r).chats[k]})

\* failed: the number of store calls of the refresh that raised
refresh_cache_if_needed(w, current_time, plan) ==
    LET w0 == reset_cache(w)
        chat_keys == redis_scan(w0.redis)
        done == {k \in chat_keys : plan.chats[k].smembers_ok}
        \* key_parts[1] of "chat:{chat_id}:members".split(':')
        cmc == [chat_id_str \in {k[2] : k \in done} |->
                  {decode(m) : m \in redis_smembers(w0.redis, MembersKey(chat_id_str))}]
        read == UNION {plan.chats[k].loaded : k \in done}
        usc == [user_id_str \in {u \in read : Truthy(redis_get(w0.redis, UserKey(u)))} |->
                  json_loads(redis_get(w0.redis, UserKey(user_id_str)))]
    IN  IF ~is_cache_stale(w, current_time)
        THEN [w |-> w, raised |-> FALSE, refreshed |-> FALSE, failed |-> 0]
        ELSE IF ~plan.scan_ok
        THEN [w |-> w0, raised |-> TRUE, refreshed |-> TRUE, failed |-> 1]
        ELSE [w |-> [w0 EXCEPT !.usc = usc @@ @, !.cmc = cmc @@ @,
                               !.clu = current_time],
              raised |-> FALSE, refreshed |-> TRUE,
              failed |-> PlanFailed(w.redis, plan)]


-----------------------------------------------------------------------------
(* Texts: sequences of characters. A character is a one-character string; *)
(* a character outside ASCII is written by its code point, "U+0BB5".       *)

UpperCase ==
    <<"A", "B", "C", "D", "E", "F", "G", "H", "I", "J", "K", "L", "M", "N", "O", "P", "Q", "R", "S", "T", "U", "V", "W", "X", "Y", "Z">>

LowerCase ==
    <<"a", "b", "c", "d", "e", "f", "g", "h", "i", "j", "k", "l", "m", "n", "o", "p", "q", "r", "s", "t", "u", "v", "w", "x", "y", "z">>

\* str.isspace for the characters of the model
Whitespace == {" ", "\n", "\t"}

Quotes == {"\"", "'"}

\* Characters of U+0900..U+0D7F (Devanagari to Malayalam), line 322
NativeScript == {"U+0928", "U+0BB5", "U+0D2E"}

\* [A-Za-z-]
IsWordChar(c) ==
    c = "-" \/ \E i \in 1..26 : c = UpperCase[i] \/ c = LowerCase[i]

lower_char(c) ==
    IF \E i \in 1..26 : c = UpperCase[i]
    THEN LowerCase[CHOOSE i \in 1..26 : c = UpperCase[i]]
    ELSE c

lower(s) == [i \in 1..Len(s) |-> lower_char(s[i])]

RECURSIVE lstrip(_)
lstrip(s) == IF s # <<>> /\ Head(s) \in Whitespace THEN lstrip(Tail(s)) ELSE s

RECURSIVE rstrip(_)
rstrip(s) ==
    IF s # <<>> /\ s[Len(s)] \in Whitespace
    THEN rstrip(SubSeq(s, 1, Len(s) - 1))
    ELSE s

strip(s) == rstrip(lstrip(s))

\* the index of the first c in s at or after i, 0 when there is none
RECURSIVE find(_, _, _)
find(s, c, i) ==
    IF i > Len(s) THEN 0 ELSE IF s[i] = c THEN i ELSE find(s, c, i + 1)

\* the first index at or after i of a character that is not in the set cs,
\* Len(s) + 1 when there is none
RECURSIVE skip(_, _, _)
skip(s, cs, i) ==
    IF i <= Len(s) /\ s[i] \in cs THEN skip(s, cs, i + 1) ELSE i

StartsWith(s, p) == Len(s) >= Len(p) /\ SubSeq(s, 1, Len(p)) = p

Drop(s, n) == SubSeq(s, n + 1, Len(s))

\* line 320: re.sub(r'^["\']*|["\']*$', '', result)
RECURSIVE strip_quotes_left(_)
strip_quotes_left(s) ==
    IF s # <<>> /\ Head(s) \in Quotes THEN strip_quotes_left(Tail(s)) ELSE s

RECURSIVE strip_quotes_right(_)
strip_quotes_right(s) ==
    IF s # <<>> /\ s[Len(s)] \in Quotes
    THEN strip_quotes_right(SubSeq(s, 1, Len(s) - 1))
    ELSE s

strip_quotes(s) == strip_quotes_right(strip_quotes_left(s))

\* line 321: the label prefixes, matched at the start ignoring case
LabelPrefixes ==
    { <<"t", "r", "a", "n", "s", "l", "a", "t", "i", "o", "n", ":">>,
      <<"p", "r", "o", "n", "u", "n", "c", "i", "a", "t", "i", "o", "n", ":">>,
      <<"t", "r", "a", "n", "s", "l", "i", "t", "e", "r", "a", "t", "i", "o", "n", ":">>,
      <<"i", "n", " ", "e", "n", "g", "l", "i", "s", "h", ":">>,
      <<"p", "h", "o", "n", "e", "t", "i", "c", ":">>,
      <<"r", "o", "m", "a", "n", "i", "z", "e", "d", ":">> }

strip_prefix(s) ==
    LET hits == {p \in LabelPrefixes : StartsWith(lower(s), p)}
    IN  strip(IF hits = {} THEN s ELSE Drop(s, Len(CHOOSE p \in hits : TRUE)))

\* line 322
strip_script(s) == SelectSeq(s, LAMBDA c : c \notin NativeScript)

\* lines 326-327
first_line(s) ==
    IF find(s, "\n", 1) = 0 THEN s ELSE strip(SubSeq(s, 1, find(s, "\n", 1) - 1))

\* line 330: re.sub(r'\s*\([^)]*-[^)]*\)', '', result). A match starts at i
\* when the first character at or after i that is no whitespace is a "(",
\* a ")" follows it, and a "-" stands before the first such ")".
ParenEnd(s, i) ==
    LET open == skip(s, Whitespace, i)
        close == IF open <= Len(s) /\ s[open] = "(" THEN find(s, ")", open + 1) ELSE 0
        hyphen == IF close = 0 THEN 0 ELSE find(s, "-", open + 1)
    IN  IF close # 0 /\ hyphen # 0 /\ hyphen < close THEN close ELSE 0

RECURSIVE remove_parens(_, _)
remove_parens(s, i) ==
    IF i > Len(s) THEN <<>>
    ELSE IF ParenEnd(s, i) # 0 THEN remove_parens(s, ParenEnd(s, i) + 1)
    ELSE <<s[i]>> \o remove_parens(s, i + 1)

\* line 331: re.sub(r'\.\s+[A-Za-z-]+(?:-[A-Za-z-]+)+', '.', result). A match
\* starts at a "." followed by whitespace and a run of [A-Za-z-] that has a
\* "-" which is neither its first nor its last character; it takes the run.
BreakdownEnd(s, i) ==
    LET word == skip(s, Whitespace, i + 1)
        stop == skip(s, {c \in {s[k] : k \in 1..Len(s)} : IsWordChar(c)}, word)
    IN  IF s[i] = "." /\ word > i + 1
           /\ \E k \in (word + 1)..(stop - 2) : s[k] = "-"
        THEN stop - 1
        ELSE 0

RECURSIVE remove_breakdown(_, _)
remove_breakdown(s, i) ==
    IF i > Len(s) THEN <<>>
    ELSE IF BreakdownEnd(s, i) # 0
    THEN <<".">> \o remove_breakdown(s, BreakdownEnd(s, i) + 1)
    ELSE <<s[i]>> \o remove_breakdown(s, i + 1)

\* lines 334-337: keep the first sentence when a later one has a hyphen
first_sentence(s) ==
    LET dot == find(s, ".", 1)
    IN  IF dot # 0 /\ find(s, "-", dot + 1) # 0
        THEN strip(SubSeq(s, 1, dot - 1)) \o <<".">>
        ELSE s

\* lines 320-337 in order
clean(result) ==
    first_sentence(
        remove_breakdown(
            remove_parens(
                first_line(strip_script(strip_prefix(strip_quotes(result)))), 1), 1))


-----------------------------------------------------------------------------
(* The translation call. A response of the remote model is what the call   *)
(* client.chat.completions.create did: it raised, it returned no choice,   *)
(* it returned a choice whose content is None, or it returned a text.      *)

Hello == <<"H", "e", "l", "l", "o">>

Hola == <<"H", "o", "l", "a">>

\* two words in Devanagari, of which line 322 leaves the space between them
Namaste == <<"U+0928", " ", "U+0928">>

Response(kind, content) == [kind |-> kind, content |-> content]

\* the responses to the messages of the chat
Responses ==
    { Response("raise", <<>>), Response("content", <<>>),
      Response("content", Hola), Response("content", Hello),
      Response("content", Namaste) }

\* a fallback to the empty text
translate_text_blank(text, target_language, response) ==
    IF response.kind = "content"
    THEN clean(strip(response.content))
    ELSE <<>>

\* lines 188-348; the prompt is built from text and target_language and the
\* model's answer is the response. The call that raises, response.choices[0]
\* of a response without choices (IndexError) and .strip() of a content that
\* is None (AttributeError) all end in the except of line 345.
translate_text(text, target_language, response) ==
    IF response.kind = "content"
    THEN clean(strip(response.content))
    ELSE text

-----------------------------------------------------------------------------
(* The operations, one update at a time. A behaviour starts with a process *)
(* that finds in Redis what earlier runs left there: the members of the    *)
(* groups and settings of some of these members.                           *)

\* Users are told apart by their ids alone, so of the stores that differ only
\* in the names of the users one is kept: the one in which the users stand in
\* the order of what Redis holds about them.
Holding(members, settings, u) ==
    (IF u \in DOMAIN settings
     THEN 1 + (IF settings[u].language = None THEN 0 ELSE 1)
            + (IF settings[u].mode = "off" THEN 0 ELSE 2)
     ELSE 0)
    + 5 * Cardinality({g \in GroupIds : u \in members[g]})

Ordered(members, settings) ==
    \A u, v \in UserIds :
        u < v => Holding(members, settings, u) >= Holding(members, settings, v)

Stores ==
    UNION { UNION { {
        [key \in {MembersKey(str(g)) : g \in {h \in GroupIds : members[h] # {}}}
                 \cup {UserKey(str(u)) : u \in DOMAIN settings} |->
            IF Len(key) = 3
            THEN {encode(str(u)) : u \in members[int(key[2])]}
            ELSE encode(json_dumps(settings[int(key[2])]))]
        : settings \in {st \in [has -> SettingsDicts] : Ordered(members, st)} }
        : has \in SUBSET UNION {members[g] : g \in GroupIds} }
        : members \in [GroupIds -> SUBSET UserIds] }

NoOp == [op |-> "none"]

Idle == [pc |-> "idle"]

SetWorld(w) ==
    /\ user_settings_cache' = w.usc
    /\ chat_members_cache' = w.cmc
    /\ cache_last_updated' = w.clu
    /\ redis' = w.redis

\* the history of the staleness clock: a time was written to it
Advance(advanced) == last_advance' = IF advanced THEN now ELSE last_advance

Note(user_id, chat_id) ==
    added' = [added EXCEPT ![str(chat_id)] = @ \cup {str(user_id)}]

\* the number of FALSE among the flags
Failed(flags) == Cardinality({i \in 1..Len(flags) : ~flags[i]})

Use(ops, failures) ==
    /\ used.ops + ops <= MaxOps
    /\ used.failures + failures <= MaxFailures
    /\ used' = [ops |-> used.ops + ops, failures |-> used.failures + failures]

\* main initialises the cache (line 569) before it starts polling (line 610)
Started == last # NoOp \/ used.ops > 0

\* an update is handled when the one before it has been
Sequential == Started /\ handling.pc # "loop" /\ used.ops < MaxOps

StartTime == CACHE_TTL + 1

Init ==
    /\ user_settings_cache = <<>>
    /\ chat_members_cache = <<>>
    /\ cache_last_updated = 0
    /\ redis \in Stores
    /\ now = StartTime
    /\ handling = Idle
    /\ last = NoOp
    /\ added = [c \in {str(g) : g \in GroupIds} |->
                 {decode(m) : m \in redis_smembers(redis, MembersKey(c))}]
    /\ last_advance = 0
    /\ used = [ops |-> 0, failures |-> 0]

\* Time passes between two updates, a little more than half the TTL at a
\* time; handling one update takes less.
TickStep == CACHE_TTL \div 2 + 1

Tick ==
    /\ Sequential
    /\ now + TickStep <= StartTime + MaxTicks * TickStep
    /\ now' = now + TickStep
    /\ UNCHANGED <<user_settings_cache, chat_members_cache, cache_last_updated,
                   redis, handling, last, added, last_advance, used>>

\* the cache initialisation of main, line 569, before the first update
InitializeCache ==
    /\ ~Started
    /\ \E plan \in RefreshPlans(redis) :
          LET res == refresh_cache_if_needed(World, now, plan)
          IN  /\ Use(0, PlanFailed(redis, plan))
              /\ SetWorld(res.w)
              /\ Advance(res.refreshed /\ ~res.raised)
              /\ last' = [op |-> "refresh", refreshed |-> res.refreshed,
                          raised |-> res.raised, failed |-> res.failed,
                          at |-> now,
                          elapsed |-> now - last_advance]
    /\ UNCHANGED <<now, added, handling>>

\* /start, lines 351-365
start ==
    /\ Sequential
    /\ \E user_id \in UserIds, chat_id \in GroupIds, sadd_ok \in BOOLEAN :
          /\ Use(1, Failed(<<sadd_ok>>))
          /\ SetWorld(add_user_to_chat(World, user_id, chat_id, sadd_ok))
          /\ Note(user_id, chat_id)
          /\ last' = [op |-> "add", user |-> user_id, chat |-> chat_id,
                      sadd_ok |-> sadd_ok, at |-> now,
                      elapsed |-> now - last_advance]
    /\ handling' = Idle
    /\ UNCHANGED <<now, last_advance>>

\* a call of get_chat_members, lines 103-119
GetChatMembers ==
    /\ Sequential
    /\ \E chat_id \in GroupIds, smembers_ok \in BOOLEAN :
          LET got == get_chat_members(World, chat_id, smembers_ok)
          IN  /\ got.reads = 0 => smembers_ok
              /\ Use(1, Failed(<<smembers_ok>>))
              /\ SetWorld(got.w)
              /\ last' = [op |-> "get_members", chat |-> chat_id, ret |-> got.ret,
                          reads |-> got.reads, smembers_ok |-> smembers_ok,
                          at |-> now, elapsed |-> now - last_advance]
    /\ handling' = Idle
    /\ UNCHANGED <<now, added, last_advance>>

\* the record of a call of get_user_settings
GetRecord(user_id, got, get_ok, set_ok) ==
    [op |-> "get", user |-> user_id, ret |-> got.ret.val, alias |-> got.alias,
     raised |-> got.raised, reads |-> got.reads, writes |-> got.writes,
     path |-> got.path, get_ok |-> get_ok, set_ok |-> set_ok,
     had_record |-> UserKey(str(user_id)) \in DOMAIN redis,
     cached |-> IF str(user_id) \in DOMAIN user_settings_cache
                THEN user_settings_cache[str(user_id)] ELSE default_settings,
     at |-> now, elapsed |-> now - last_advance]

\* /getsettings, lines 403-416
get_settings ==
    /\ Sequential
    /\ \E user_id \in UserIds, get_ok \in BOOLEAN, set_ok \in BOOLEAN :
          LET got == get_user_settings(World, user_id, now, get_ok, set_ok)
          IN  /\ got.reads = 0 => get_ok
              /\ got.path \in {"cache", "store", "raise_get"} => set_ok
              /\ Use(1, Failed(<<get_ok, set_ok>>))
              /\ SetWorld(got.w)
              /\ last' = GetRecord(user_id, got, get_ok, set_ok)
    /\ handling' = Idle
    /\ UNCHANGED <<now, added, last_advance>>

\* str.lower() of a command argument
str_lower(s) == IF s = "OVERLAY" THEN "overlay" ELSE s

\* the record of a call of update_user_settings
SetRecord(user_id, key, value, res, save_ok, args) ==
    [op |-> "set", user |-> user_id, key |-> key, value |-> value,
     args |-> args,
     got |-> res.got.ret.val, path |-> res.got.path,
     raised |-> res.raised, saved |-> res.saved, save_ok |-> save_ok,
     leaked |-> res.mutated # res.got.w,
     reply |-> IF res.raised THEN "none" ELSE "done",
     at |-> now, elapsed |-> now - last_advance]

\* the record of a command that only replies
ReplyRecord(user_id, key, reply, args) ==
    [op |-> "usage", user |-> user_id, key |-> key, reply |-> reply,
     args |-> args,
     at |-> now, elapsed |-> now - last_advance]

Replied(user_id, key, reply, args) ==
    /\ Use(1, 0)
    /\ last' = ReplyRecord(user_id, key, reply, args)
    /\ UNCHANGED <<user_settings_cache, chat_members_cache, cache_last_updated,
                   redis, last_advance>>

Update(user_id, key, value, args) ==
    \E get_ok \in BOOLEAN, set_ok \in BOOLEAN, save_ok \in BOOLEAN :
        LET res == update_user_settings(World, user_id, key, value, now,
                                        get_ok, set_ok, save_ok)
        IN  /\ res.got.reads = 0 => get_ok
            /\ res.got.path \in {"cache", "store", "raise_get"} => set_ok
            /\ res.raised => save_ok
            /\ Use(1, Failed(<<get_ok, set_ok, save_ok>>))
            /\ SetWorld(res.w)
            /\ Advance(res.saved)
            /\ last' = SetRecord(user_id, key, value, res, save_ok, args)

\* /setlanguage, lines 368-379
set_language ==
    /\ Sequential
    /\ \E user_id \in UserIds, args \in {<<>>} \cup {<<l>> : l \in Languages} :
          IF args = <<>>
          THEN Replied(user_id, "language", "usage", args)
          ELSE Update(user_id, "language", args[1], args)
    /\ handling' = Idle
    /\ UNCHANGED <<now, added>>

ModeArgs == {<<>>, <<"overlay">>, <<"off">>, <<"OVERLAY">>, <<"loud">>}

\* a /setmode that passes on whatever it is given
set_mode_unchecked ==
    /\ Sequential
    /\ \E user_id \in UserIds, args \in ModeArgs :
          IF args = <<>>
          THEN Replied(user_id, "mode", "usage", args)
          ELSE Update(user_id, "mode", str_lower(args[1]), args)
    /\ handling' = Idle
    /\ UNCHANGED <<now, added>>

\* /setmode, lines 382-400
set_mode ==
    /\ Sequential
    /\ \E user_id \in UserIds, args \in ModeArgs :
          IF args = <<>>
          THEN Replied(user_id, "mode", "usage", args)
          ELSE IF str_lower(args[1]) \notin VALID_MODES
          THEN Replied(user_id, "mode", "invalid", args)
          ELSE Update(user_id, "mode", str_lower(args[1]), args)
    /\ handling' = Idle
    /\ UNCHANGED <<now, added>>

-----------------------------------------------------------------------------
(* process_message, lines 465-548, in steps: the part before the loop, one *)
(* step for each member the loop visits, the last of which ends the call.  *)

Updates ==
    [sender : UserIds, chat_type : {"group"}, chat_id : GroupIds,
     has_message : BOOLEAN, text : {<<>>, Hello}]
    \cup [sender : UserIds, chat_type : {"private"}, chat_id : {0},
          has_message : {TRUE}, text : {Hello}]

\* handling when the call has ended before the loop
Ended(update, res, rejected, registered) ==
    [pc |-> "done", sender |-> update.sender, chat |-> update.chat_id,
     text |-> update.text, refreshed |-> res.refreshed, raised |-> res.raised,
     refresh_failed |-> res.failed,
     rejected |-> rejected, registered |-> registered,
     todo |-> {}, seen |-> <<>>, replies |-> {},
     users_count |-> 0, translation_count |-> 0,
     at |-> now, elapsed |-> now - last_advance]

\* lines 465-503
process_message ==
    /\ Sequential
    /\ \E update \in Updates,
          plan \in IF is_cache_stale(World, now)
                   THEN RefreshPlans(redis) ELSE {NoFailure(redis)} :
          LET res == refresh_cache_if_needed(World, now, plan)
              skipped == res.raised \/ update.chat_type # "group" \/ ~update.has_message
          IN  \E sadd_ok \in IF skipped THEN {TRUE} ELSE BOOLEAN :
                LET w1 == add_user_to_chat(res.w, update.sender, update.chat_id, sadd_ok)
                    chat_members == get_chat_members(w1, update.chat_id, TRUE)
                IN  /\ ~update.has_message => update.text = <<>>
                    /\ Use(1, PlanFailed(redis, plan) + Failed(<<sadd_ok>>))
                    /\ Advance(res.refreshed /\ ~res.raised)
                    /\ IF skipped
                       THEN /\ SetWorld(res.w)
                            /\ handling' =
                                  Ended(update, res,
                                        IF res.raised THEN "raised"
                                        ELSE IF update.chat_type # "group" THEN "not_group"
                                        ELSE "no_message", FALSE)
                            /\ UNCHANGED added
                       ELSE IF update.text = <<>>
                       THEN /\ SetWorld(w1)
                            /\ handling' = Ended(update, res, "no_text", TRUE)
                            /\ Note(update.sender, update.chat_id)
                       ELSE /\ SetWorld(chat_members.w)
                            /\ Note(update.sender, update.chat_id)
                            /\ handling' =
                                  [Ended(update, res, "no", TRUE) EXCEPT
                                      !.pc = "loop", !.todo = chat_members.ret]
    /\ last' = NoOp
    /\ UNCHANGED now

\* what the loop did for one member
Seen(step, response, translated) ==
    [step |-> step, response |-> response, translated |-> translated]

\* the mode is not looked at
EligibleAnyMode(user_id, sender_id, settings) ==
    /\ user_id # sender_id
    /\ settings.language \notin {None, ""}

\* the sender is not skipped
EligibleWithSender(user_id, sender_id, settings) ==
    /\ settings.language \notin {None, ""}
    /\ settings.mode # "off"

\* lines 511-525: the member is not the sender, has a language and has not
\* switched the translations off
Eligible(user_id, sender_id, settings) ==
    /\ user_id # sender_id
    /\ settings.language \notin {None, ""}
    /\ settings.mode # "off"

\* a translation equal to the message is sent too
DispatchesUnchanged(translated, message_text) == strip(translated) # <<>>

\* line 533
Dispatches(translated, message_text) ==
    translated # message_text /\ strip(translated) # <<>>

\* a failed send leaves process_message too
PropagatesAny(step) == step \in {"raised", "send_failed"}

\* The exception of a step leaves process_message when it is raised outside
\* the try of lines 530-546: by get_user_settings, line 516.
Propagates(step) == step = "raised"

\* one pass of the loop, lines 506-546, and line 548 after the last; the
\* loop visits the members of the set in any order
process_member ==
    /\ handling.pc = "loop"
    /\ \E user_id_str \in handling.todo :
          LET user_id == int(user_id_str)
              is_sender == user_id = handling.sender
          IN  \E get_ok \in IF is_sender THEN {TRUE} ELSE BOOLEAN,
                 set_ok \in IF is_sender THEN {TRUE} ELSE BOOLEAN :
                LET got == get_user_settings(World, user_id, now, get_ok, set_ok)
                    settings == got.ret.val
                    eligible == /\ is_sender \/ ~got.raised
                                /\ Eligible(user_id, handling.sender, settings)
                IN  /\ got.reads = 0 => get_ok
                    /\ got.path \in {"cache", "store", "raise_get"} => set_ok
                    /\ \E response \in IF eligible THEN Responses
                                       ELSE {Response("none", <<>>)} :
                        LET translated ==
                                translate_text(handling.text, settings.language, response)
                            dispatch == eligible /\ Dispatches(translated, handling.text)
                        IN  \E send_ok \in IF dispatch THEN BOOLEAN ELSE {TRUE} :
                              LET step ==
                                    IF eligible
                                    THEN IF ~dispatch THEN "no_translation"
                                         ELSE IF send_ok THEN "sent"
                                         ELSE "send_failed"
                                    ELSE IF is_sender THEN "sender"
                                    ELSE IF got.raised THEN "raised"
                                    ELSE IF settings.language \in {None, ""}
                                    THEN "no_language"
                                    ELSE "off"
                              IN
                              /\ Use(0, Failed(<<get_ok, set_ok, send_ok>>))
                              /\ SetWorld(IF is_sender THEN World ELSE got.w)
                              /\ handling' =
                                  [handling EXCEPT
                                    !.pc = IF handling.todo = {user_id_str}
                                              \/ Propagates(step)
                                           THEN "done" ELSE "loop",
                                    !.raised = Propagates(step),
                                    !.todo = @ \ {user_id_str},
                                    !.seen = (user_id_str :>
                                                Seen(step, response,
                                                     IF eligible THEN translated
                                                     ELSE <<>>)) @@ @,
                                    !.replies =
                                        IF step = "sent"
                                        THEN @ \cup {[text |-> translated,
                                                      for |-> user_id_str]}
                                        ELSE @,
                                    !.users_count = @ + 1,
                                    !.translation_count =
                                        IF step = "sent" THEN @ + 1 ELSE @]
    /\ UNCHANGED <<now, last, added, last_advance>>

Next ==
    \/ Tick
    \/ InitializeCache
    \/ start
    \/ GetChatMembers
    \/ get_settings
    \/ set_language
    \/ set_mode
    \/ process_message
    \/ process_member

Spec == Init /\ [][Next]_vars

-----------------------------------------------------------------------------
(* translate_text on its own: a call with a text and an answer of the      *)
(* remote model, and its return.                                           *)

Texts == {Hello, Hola}

Bonjour == <<"B", "o", "n", "j", "o", "u", "r">>

\* the answer 'Bonjour' (Bon-zhoor), a line break, Bon-zhoor-extra-line
BonjourAnswer ==
    <<"'", "B", "o", "n", "j", "o", "u", "r", "'", " ", "(", "B", "o", "n",
    "-", "z", "h", "o", "o", "r", ")", "\n", "B", "o", "n", "-", "z", "h",
    "o", "o", "r", "-", "e", "x", "t", "r", "a", "-", "l", "i", "n", "e">>

Alphabet == {"H", " ", "'", "U+0928"}

Contents == UNION {[1..n -> Alphabet] : n \in 0..MaxLen}

AllResponses ==
    {Response(kind, <<>>) : kind \in {"raise", "no_choices", "no_content"}}
    \cup {Response("content", content) : content \in Contents \cup {BonjourAnswer}}

InitTranslate ==
    /\ user_settings_cache = <<>>
    /\ chat_members_cache = <<>>
    /\ cache_last_updated = 0
    /\ redis = <<>>
    /\ now = StartTime
    /\ handling = Idle
    /\ last \in [op : {"translate_text"}, text : Texts, target_language : Languages,
                 response : AllResponses, returned : {FALSE}, ret : {<<>>}]
    /\ added = [c \in {str(g) : g \in GroupIds} |-> {}]
    /\ last_advance = 0
    /\ used = [ops |-> 0, failures |-> 0]

Translate ==
    /\ last.op = "translate_text" /\ ~last.returned
    /\ last' = [last EXCEPT
                  !.returned = TRUE,
                  !.ret = translate_text(last.text, last.target_language, last.response)]
    /\ UNCHANGED <<user_settings_cache, chat_members_cache, cache_last_updated,
                   redis, now, handling, added, last_advance, used>>

NextTranslate == Translate

SpecTranslate == InitTranslate /\ [][NextTranslate]_vars

-----------------------------------------------------------------------------
(* Handlers side by side: two calls of process_message that the host runs  *)
(* at the same time, each from its refresh (line 467) through its          *)
(* add_user_to_chat (line 488) to its get_chat_members (line 500). Here    *)
(* handling holds the position and the local variables of each call. A     *)
(* step is one access of the shared state: one statement upon a cache or   *)
(* the clock, or one call of Redis. The lookup of a global and the         *)
(* operation upon the object found are one step: an operation upon a dict  *)
(* or a set that another call has replaced in between leaves what an       *)
(* operation just before the replacement leaves. The loop over the members *)
(* (lines 506-546) writes neither the membership cache nor a membership    *)
(* key and is left out.                                                    *)

Handlers == {1, 2}

Other(h) == CHOOSE k \in Handlers : k # h

\* the positions inside refresh_cache_if_needed after the staleness test
InRefresh == {"reset_usc", "reset_cmc", "reset_clu", "scan", "chat",
              "members", "get", "settings", "stamp"}

\* the positions inside add_user_to_chat after its first statement
InAdd == {"add_init", "add_insert", "add_store"}

Finished == {"done", "raised"}

\* a call of process_message about to start
Call(from_user, chat_id) ==
    [pc |-> "refresh", from_user |-> from_user, chat_id |-> chat_id,
     observed |-> FALSE, resets |-> 0, scans |-> 0, failed |-> 0,
     chat_keys |-> {}, chat_id_str |-> None, member_strings |-> {},
     left |-> {}, user_id_str |-> None, settings_json |-> Nil,
     raced |-> FALSE, ret |-> {}]

\* handler h moves on; raced records of a call that a step of its add was
\* taken while the other call was inside its refresh, or a step of the other
\* call's refresh while it was inside its add
Goes(h, call) ==
    LET o == handling[Other(h)]
        me == handling[h].pc
    IN  handling' = [handling EXCEPT
                       ![h] = [call EXCEPT
                                 !.raced = @ \/ (/\ me \in InAdd \cup {"add_test"}
                                                 /\ o.pc \in InRefresh)],
                       ![Other(h)] = [@ EXCEPT
                                 !.raced = @ \/ (/\ me \in InRefresh
                                                 /\ o.pc \in InAdd)]]

Fails(n) == Use(0, n)

\* the users that the store holds as members of some chat
Members(r) == UNION {redis_smembers(r, k) : k \in redis_scan(r)}

\* what the process holds when the two updates arrive: nothing, when the
\* initialisation of main failed, or what a refresh at StartTime loaded; the
\* store is one in which some user has yet to write to a group
InitHandlers ==
    /\ redis \in {r \in Stores : Cardinality(Members(r)) < MaxUser}
    /\ \/ /\ user_settings_cache = <<>>
          /\ chat_members_cache = <<>>
          /\ cache_last_updated = 0
          /\ now = StartTime
       \/ /\ user_settings_cache =
                refresh_cache_if_needed(
                    [usc |-> <<>>, cmc |-> <<>>, clu |-> 0, redis |-> redis],
                    StartTime, NoFailure(redis)).w.usc
          /\ chat_members_cache =
                refresh_cache_if_needed(
                    [usc |-> <<>>, cmc |-> <<>>, clu |-> 0, redis |-> redis],
                    StartTime, NoFailure(redis)).w.cmc
          /\ cache_last_updated = StartTime
          /\ now \in {StartTime + TickStep, StartTime + CACHE_TTL + 1}
    /\ handling \in {f \in [Handlers -> {Call(u, g) : u \in UserIds, g \in GroupIds}] :
                        f[1].from_user <= f[2].from_user}
    /\ last = NoOp
    /\ added = [c \in {str(g) : g \in GroupIds} |-> {}]
    /\ last_advance = cache_last_updated
    /\ used = [ops |-> 0, failures |-> 0]

\* line 423: if is_cache_stale()
HandlerStale(h) ==
    /\ handling[h].pc = "refresh"
    /\ LET stale == is_cache_stale(World, now)
       IN  Goes(h, [handling[h] EXCEPT
                      !.pc = IF stale THEN "reset_usc" ELSE "add_test",
                      !.observed = stale])
    /\ UNCHANGED <<user_settings_cache, chat_members_cache, cache_last_updated,
                   redis, now, last, added, last_advance, used>>

\* line 125: user_settings_cache = {}
HandlerResetSettings(h) ==
    /\ handling[h].pc = "reset_usc"
    /\ user_settings_cache' = reset_cache(World).usc
    /\ Goes(h, [handling[h] EXCEPT !.pc = "reset_cmc"])
    /\ UNCHANGED <<chat_members_cache, cache_last_updated, redis, now, last,
                   added, last_advance, used>>

\* line 126: chat_members_cache = {}
HandlerResetMembers(h) ==
    /\ handling[h].pc = "reset_cmc"
    /\ chat_members_cache' = reset_cache(World).cmc
    /\ Goes(h, [handling[h] EXCEPT !.pc = "reset_clu"])
    /\ UNCHANGED <<user_settings_cache, cache_last_updated, redis, now, last,
                   added, last_advance, used>>

\* line 127: cache_last_updated = 0
HandlerResetClock(h) ==
    /\ handling[h].pc = "reset_clu"
    /\ cache_last_updated' = reset_cache(World).clu
    /\ Goes(h, [handling[h] EXCEPT !.pc = "scan", !.resets = @ + 1])
    /\ UNCHANGED <<user_settings_cache, chat_members_cache, redis, now, last,
                   added, last_advance, used>>

\* lines 429-436: the scan; when it raises, the exception leaves
\* process_message
HandlerScan(h) ==
    /\ handling[h].pc = "scan"
    /\ \E scan_ok \in BOOLEAN :
          /\ Fails(Failed(<<scan_ok>>))
          /\ Goes(h, IF scan_ok
                     THEN [handling[h] EXCEPT !.pc = "chat", !.scans = @ + 1,
                                              !.chat_keys = redis_scan(redis)]
                     ELSE [handling[h] EXCEPT !.pc = "raised", !.failed = @ + 1])
    /\ UNCHANGED <<user_settings_cache, chat_members_cache, cache_last_updated,
                   redis, now, last, added, last_advance>>

\* lines 439-448: the next chat key and its smembers; a raise is caught at
\* line 457 and the loop goes on with the next key
HandlerChat(h) ==
    /\ handling[h].pc = "chat"
    /\ IF handling[h].chat_keys = {}
       THEN /\ Goes(h, [handling[h] EXCEPT !.pc = "stamp"])
            /\ UNCHANGED used
       ELSE \E chat_key \in handling[h].chat_keys, smembers_ok \in BOOLEAN :
              /\ Fails(Failed(<<smembers_ok>>))
              /\ Goes(h, IF smembers_ok
                         THEN [handling[h] EXCEPT
                                 !.pc = "members",
                                 !.chat_keys = @ \ {chat_key},
                                 !.chat_id_str = chat_key[2],
                                 !.member_strings =
                                     {decode(m) : m \in redis_smembers(redis,
                                                     MembersKey(chat_key[2]))}]
                         ELSE [handling[h] EXCEPT
                                 !.chat_keys = @ \ {chat_key},
                                 !.failed = @ + 1])
    /\ UNCHANGED <<user_settings_cache, chat_members_cache, cache_last_updated,
                   redis, now, last, added, last_advance>>

\* line 449: chat_members_cache[chat_id_str] = member_strings
HandlerMembers(h) ==
    /\ handling[h].pc = "members"
    /\ chat_members_cache' =
          (handling[h].chat_id_str :> handling[h].member_strings)
              @@ chat_members_cache
    /\ Goes(h, [handling[h] EXCEPT !.pc = "get", !.left = handling[h].member_strings])
    /\ UNCHANGED <<user_settings_cache, cache_last_updated, redis, now, last,
                   added, last_advance, used>>

\* lines 452-454: the next member, in the order of the set, and the get of
\* its record; a raise ends the loop over the members of this chat
HandlerGet(h) ==
    /\ handling[h].pc = "get"
    /\ IF handling[h].left = {}
       THEN /\ Goes(h, [handling[h] EXCEPT !.pc = "chat"])
            /\ UNCHANGED used
       ELSE \E user_id_str \in handling[h].left, get_ok \in BOOLEAN :
              LET settings_json == redis_get(redis, UserKey(user_id_str))
              IN  /\ Fails(Failed(<<get_ok>>))
                  /\ Goes(h, IF ~get_ok
                             THEN [handling[h] EXCEPT !.pc = "chat", !.left = {},
                                                      !.failed = @ + 1]
                             ELSE IF Truthy(settings_json)
                             THEN [handling[h] EXCEPT
                                     !.pc = "settings",
                                     !.left = @ \ {user_id_str},
                                     !.user_id_str = user_id_str,
                                     !.settings_json = settings_json]
                             ELSE [handling[h] EXCEPT !.left = @ \ {user_id_str}])
    /\ UNCHANGED <<user_settings_cache, chat_members_cache, cache_last_updated,
                   redis, now, last, added, last_advance>>

\* lines 455-456: user_settings_cache[user_id_str] = settings.copy()
HandlerSettings(h) ==
    /\ handling[h].pc = "settings"
    /\ user_settings_cache' =
          (handling[h].user_id_str :> json_loads(handling[h].settings_json))
              @@ user_settings_cache
    /\ Goes(h, [handling[h] EXCEPT !.pc = "get", !.user_id_str = None,
                                   !.settings_json = Nil])
    /\ UNCHANGED <<chat_members_cache, cache_last_updated, redis, now, last,
                   added, last_advance, used>>

\* a refresh that ends without writing the clock
HandlerStampSkipped(h) ==
    /\ handling[h].pc = "stamp"
    /\ Goes(h, [handling[h] EXCEPT !.pc = "add_test", !.chat_id_str = None,
                                   !.member_strings = {}])
    /\ UNCHANGED <<user_settings_cache, chat_members_cache, cache_last_updated,
                   redis, now, last, added, last_advance, used>>

\* line 461: cache_last_updated = time.time()
HandlerStamp(h) ==
    /\ handling[h].pc = "stamp"
    /\ cache_last_updated' = now
    /\ last_advance' = now
    /\ Goes(h, [handling[h] EXCEPT !.pc = "add_test", !.chat_id_str = None,
                                   !.member_strings = {}])
    /\ UNCHANGED <<user_settings_cache, chat_members_cache, redis, now, last,
                   added, used>>

\* lines 85-91: add_user_to_chat is called; if chat_id_str not in
\* chat_members_cache
HandlerAddTest(h) ==
    /\ handling[h].pc = "add_test"
    /\ Goes(h, [handling[h] EXCEPT
                  !.pc = IF str(handling[h].chat_id) \notin DOMAIN chat_members_cache
                         THEN "add_init" ELSE "add_insert"])
    /\ Note(handling[h].from_user, handling[h].chat_id)
    /\ UNCHANGED <<user_settings_cache, chat_members_cache, cache_last_updated,
                   redis, now, last, last_advance, used>>

\* line 92: chat_members_cache[chat_id_str] = set()
HandlerAddInit(h) ==
    /\ handling[h].pc = "add_init"
    /\ chat_members_cache' =
          (str(handling[h].chat_id) :> {}) @@ chat_members_cache
    /\ Goes(h, [handling[h] EXCEPT !.pc = "add_insert"])
    /\ UNCHANGED <<user_settings_cache, cache_last_updated, redis, now, last,
                   added, last_advance, used>>

\* line 95: chat_members_cache[chat_id_str].add(user_id_str); a KeyError,
\* when the entry is no longer there, leaves process_message
HandlerAddInsert(h) ==
    /\ handling[h].pc = "add_insert"
    /\ LET chat_id_str == str(handling[h].chat_id)
           user_id_str == str(handling[h].from_user)
       IN  IF chat_id_str \in DOMAIN chat_members_cache
           THEN /\ chat_members_cache' =
                      [chat_members_cache EXCEPT
                          ![chat_id_str] = @ \cup {user_id_str}]
                /\ Goes(h, [handling[h] EXCEPT !.pc = "add_store"])
           ELSE /\ UNCHANGED chat_members_cache
                /\ Goes(h, [handling[h] EXCEPT !.pc = "raised"])
    /\ UNCHANGED <<user_settings_cache, cache_last_updated, redis, now, last,
                   added, last_advance, used>>

\* lines 96-100: the sadd, whose raise is caught
HandlerAddStore(h) ==
    /\ handling[h].pc = "add_store"
    /\ \E sadd_ok \in BOOLEAN :
          /\ Fails(Failed(<<sadd_ok>>))
          /\ redis' = IF sadd_ok
                      THEN redis_sadd(redis, MembersKey(str(handling[h].chat_id)),
                                      str(handling[h].from_user))
                      ELSE redis
          /\ Goes(h, [handling[h] EXCEPT
                        !.pc = "get_members",
                        !.failed = @ + Failed(<<sadd_ok>>)])
    /\ UNCHANGED <<user_settings_cache, chat_members_cache, cache_last_updated,
                   now, last, added, last_advance>>

\* line 500: chat_members = get_chat_members(chat_id)
HandlerGetMembers(h) ==
    /\ handling[h].pc = "get_members"
    /\ \E smembers_ok \in BOOLEAN :
          LET got == get_chat_members(World, handling[h].chat_id, smembers_ok)
          IN  /\ Fails(IF got.reads = 1 THEN Failed(<<smembers_ok>>) ELSE 0)
              /\ got.reads = 0 => smembers_ok
              /\ SetWorld(got.w)
              /\ Goes(h, [handling[h] EXCEPT
                            !.pc = "done", !.ret = got.ret,
                            !.failed = @ + (IF got.reads = 1
                                            THEN Failed(<<smembers_ok>>) ELSE 0)])
    /\ UNCHANGED <<now, last, added, last_advance>>

NextHandlers ==
    \E h \in Handlers :
        \/ HandlerStale(h)
        \/ HandlerResetSettings(h)
        \/ HandlerResetMembers(h)
        \/ HandlerResetClock(h)
        \/ HandlerScan(h)
        \/ HandlerChat(h)
        \/ HandlerMembers(h)
        \/ HandlerGet(h)
        \/ HandlerSettings(h)
        \/ HandlerStamp(h)
        \/ HandlerAddTest(h)
        \/ HandlerAddInit(h)
        \/ HandlerAddInsert(h)
        \/ HandlerAddStore(h)
        \/ HandlerGetMembers(h)

SpecHandlers == InitHandlers /\ [][NextHandlers]_vars

-----------------------------------------------------------------------------
(* Properties *)

\* a call of process_message is in its loop or has ended
InHandling == handling.pc # "idle"

\* the call went through the whole loop
HandledToTheEnd ==
    InHandling /\ handling.pc = "done" /\ handling.rejected = "no" /\ ~handling.raised

\* the members of the chat that are not the sender and whose settings have a
\* language and the mode overlay
EligibleMembers ==
    {u \in chat_members_cache[str(handling.chat)] :
        /\ u # str(handling.sender)
        /\ u \in DOMAIN user_settings_cache
        /\ user_settings_cache[u].language \in Languages
        /\ user_settings_cache[u].mode = "overlay"}

\* the members for whom translate_text was called
Attempted == {u \in DOMAIN handling.seen : handling.seen[u].response.kind # "none"}

\* C1: every reply dispatched while one group message is handled is for a
\* member of the chat who is not the sender, has a language set and has the
\* mode overlay; the sender, a member without a language (whatever the mode)
\* and a member with the mode off get no reply.
C1_RepliesOnlyForEligibleMembers ==
    InHandling =>
        /\ \A r \in handling.replies :
              /\ r.for # str(handling.sender)
              /\ r.for \in chat_members_cache[str(handling.chat)]
              /\ r.for \in DOMAIN user_settings_cache
              /\ user_settings_cache[r.for].language \in Languages
              /\ user_settings_cache[r.for].mode = "overlay"
        /\ \A u \in DOMAIN user_settings_cache :
              \/ user_settings_cache[u].language = None
              \/ user_settings_cache[u].mode = "off"
              \/ u = str(handling.sender)
              => \A r \in handling.replies : r.for # u

\* C1, its case: the message of A to a chat with B (a language, overlay) and
\* C (no language) has been handled and one reply was dispatched.
C1_Witness ==
    /\ HandledToTheEnd
    /\ Cardinality(handling.replies) = 1
    /\ Cardinality(DOMAIN handling.seen) = 3
    /\ handling.seen[str(handling.sender)].step = "sender"
    /\ \E u \in DOMAIN handling.seen : handling.seen[u].step = "no_language"

C3_MembersContainEveryAddedUser ==
    Started =>
        \A chat_id \in GroupIds, smembers_ok \in BOOLEAN :
            added[str(chat_id)] \subseteq get_chat_members(World, chat_id, smembers_ok).ret

\* C4 as it is stated: a call of get_user_settings or get_chat_members made
\* when more than the TTL has passed since the staleness clock last advanced
\* runs the full refresh before it returns, which leaves the cache fresh.
C4_GetTriggersRefresh ==
    last.op \in {"get", "get_members"} /\ last.elapsed > CACHE_TTL
        => ~is_cache_stale(World, last.at)

\* C4, amended: when more than the TTL has passed since the staleness clock
\* last advanced, the handling of the next inbound message runs the full
\* refresh, once, before it fetches members and settings (a refresh that
\* does not raise leaves the cache fresh for the rest of the handling); a
\* call of get_user_settings or get_chat_members by itself runs none and
\* leaves the cache stale.
C4_MessageTriggersRefresh ==
    /\ InHandling /\ handling.elapsed > CACHE_TTL =>
          /\ handling.refreshed
          /\ handling.rejected # "raised" => ~is_cache_stale(World, handling.at)
    /\ last.op \in {"get", "get_members"} /\ last.elapsed > CACHE_TTL
          => is_cache_stale(World, last.at)

\* C4, its case: a message arrived after the TTL, the refresh ran and the
\* message was translated for a member.
C4_Witness ==
    /\ HandledToTheEnd
    /\ handling.elapsed > CACHE_TTL
    /\ handling.refreshed
    /\ cache_last_updated = handling.at
    /\ handling.replies # {}

\* C5: no call of get_user_settings or get_chat_members and no handling of
\* an inbound message made while at most the TTL has passed since the
\* staleness clock last advanced runs the full refresh: the handling reports
\* none, and no step taken in that time resets the clock or drops an entry
\* of either cache.
C5_NoRefreshBeforeTTL ==
    /\ [](InHandling /\ handling.elapsed <= CACHE_TTL => ~handling.refreshed)
    /\ [][now - last_advance <= CACHE_TTL =>
            /\ cache_last_updated' >= cache_last_updated
            /\ DOMAIN user_settings_cache \subseteq DOMAIN user_settings_cache'
            /\ \A c \in DOMAIN chat_members_cache :
                  /\ c \in DOMAIN chat_members_cache'
                  /\ chat_members_cache[c] \subseteq chat_members_cache'[c]]_vars

\* C5, its case: a message handled half a TTL after the clock advanced, with
\* entries in both caches and no refresh.
C5_Witness ==
    /\ HandledToTheEnd
    /\ handling.elapsed > 0 /\ handling.elapsed <= CACHE_TTL
    /\ ~handling.refreshed
    /\ DOMAIN user_settings_cache # {}
    /\ handling.users_count > 1

\* C6: in the loop over the members, a translation that fails or a reply
\* that cannot be sent stays with its member: the step does not end the
\* handling and the loop goes on with the members that are left; a handling
\* that ran through its loop has considered every member of the chat, has
\* called translate_text for every eligible one and has replied to each of
\* them whose translation was good and whose send succeeded.
C6_FailureStaysWithItsMember ==
    /\ [][handling.pc = "loop" =>
            \A u \in DOMAIN handling'.seen \ DOMAIN handling.seen :
                \/ handling'.seen[u].step = "send_failed"
                \/ handling'.seen[u].response.kind = "raise"
                => /\ ~handling'.raised
                   /\ handling'.todo = handling.todo \ {u}
                   /\ handling'.todo # {} => handling'.pc = "loop"]_vars
    /\ [](HandledToTheEnd =>
            /\ DOMAIN handling.seen = chat_members_cache[str(handling.chat)]
            /\ handling.users_count = Cardinality(chat_members_cache[str(handling.chat)])
            /\ \A u \in EligibleMembers :
                  /\ u \in Attempted
                  /\ ( /\ handling.seen[u].translated # handling.text
                       /\ strip(handling.seen[u].translated) # <<>>
                       /\ handling.seen[u].step # "send_failed" )
                     => [text |-> handling.seen[u].translated, for |-> u]
                            \in handling.replies)

\* C6, its case: the send failed for one member and another member got the
\* reply.
C6_Witness ==
    /\ HandledToTheEnd
    /\ \E u, v \in DOMAIN handling.seen :
          /\ handling.seen[u].step = "send_failed"
          /\ handling.seen[v].step = "sent"

\* C7 as it is stated: a call of get_user_settings whose read of the store
\* fails does not raise and returns the cached record of the user, or the
\* default when there is none.
C7_GetFallsBackWhenStoreFails ==
    last.op = "get" /\ ~last.get_ok => ~last.raised /\ last.ret = last.cached

\* C8: get_user_settings for a user without a persisted record returns the
\* default and writes it to the store (when the store takes the calls);
\* further calls for the user, with the cache fresh or stale, return the same
\* value and write nothing.
C8_DefaultPersistedOnce ==
    last.op = "get" /\ ~last.had_record /\ ~last.raised =>
        /\ last.ret = [language |-> None, mode |-> "off"]
        /\ last.writes = 1
        /\ redis_get(redis, UserKey(str(last.user)))
              = encode(json_dumps([language |-> None, mode |-> "off"]))
        /\ \A t1, t2 \in {now, now + CACHE_TTL + 1} :
              LET second == get_user_settings(World, last.user, t1, TRUE, TRUE)
                  third == get_user_settings(second.w, last.user, t2, TRUE, TRUE)
              IN  /\ second.ret.val = last.ret /\ second.writes = 0
                  /\ third.ret.val = last.ret /\ third.writes = 0
                  /\ third.w.redis = redis

\* C8, its case: the first call for a user who had no record.
C8_Witness ==
    /\ last.op = "get" /\ ~last.had_record /\ ~last.raised
    /\ last.path = "default"
    /\ str(last.user) \in DOMAIN user_settings_cache

\* C9: on every path of get_user_settings (cache hit, load from the store,
\* creation of the default) the object returned is not the object the cache
\* holds: "settings[key] = value" on it changes neither the cached nor the
\* persisted record, and a later call returns the values from before.
C9_ReturnedSettingsAreCopies ==
    /\ \A user_id \in UserIds, t \in {now, now + CACHE_TTL + 1},
          kv \in {<<"language", "Spanish">>, <<"mode", "overlay">>, <<"mode", "off">>} :
          LET got == get_user_settings(World, user_id, t, TRUE, TRUE)
              upd == update_user_settings(World, user_id, kv[1], kv[2], t,
                                          TRUE, TRUE, FALSE)
              later == get_user_settings(upd.w, user_id, t, TRUE, TRUE)
          IN  /\ ~got.alias
              /\ upd.mutated = got.w
              /\ later.ret.val = got.ret.val
              /\ later.w.redis = got.w.redis
    /\ last.op = "set" /\ ~last.raised => ~last.leaked

\* C9, its case: update_user_settings changed a field of the object it got
\* on a cache hit, its write failed, and the cache holds the old values.
C9_Witness ==
    /\ last.op = "set" /\ ~last.raised /\ ~last.saved
    /\ last.path = "cache"
    /\ last.got[last.key] # last.value
    /\ user_settings_cache[str(last.user)] = last.got

\* C10 as it is stated: when the call of the remote model raises or its
\* response is malformed (no choice, no content) or empty (an empty
\* content), translate_text returns exactly text.
C10_ReturnsTextOnFailureOrEmpty ==
    /\ last.op = "translate_text" /\ last.returned
    /\ \/ last.response.kind \in {"raise", "no_choices", "no_content"}
       \/ last.response.content = <<>>
    => last.ret = last.text

\* C10, amended: when the call of the remote model raises, or its response
\* has no choice or a choice without content, translate_text returns exactly
\* text; a response whose content is empty or blank raises nothing and
\* translate_text returns the empty text.
C10_ReturnsTextOnException ==
    last.op = "translate_text" /\ last.returned =>
        /\ last.response.kind \in {"raise", "no_choices", "no_content"}
              => last.ret = last.text
        /\ last.response.kind = "content" /\ strip(last.response.content) = <<>>
              => last.ret = <<>>

\* C10, its case: the call raised and translate_text returned the text.
C10_Witness ==
    /\ last.op = "translate_text" /\ last.returned
    /\ last.response.kind = "raise"
    /\ last.ret = Hello

\* C11 as it is stated: for the answer 'Bonjour' (Bon-zhoor), a line break
\* and Bon-zhoor-extra-line, translate_text returns exactly Bonjour, with no
\* quote character left.
C11_BonjourIsCleaned ==
    /\ last.op = "translate_text" /\ last.returned
    /\ last.response = Response("content", BonjourAnswer)
    => /\ last.ret = Bonjour
       /\ \A i \in 1..Len(last.ret) : last.ret[i] \notin Quotes

\* C12: add_user_to_chat is idempotent: a second call for the same user and
\* chat leaves the caches and the store as the first call left them, with
\* the user in the cached set of the chat and, when the store took the call,
\* in the persisted set.
C12_AddIsIdempotent ==
    /\ \A user_id \in UserIds, chat_id \in GroupIds, sadd_ok \in BOOLEAN :
          LET once == add_user_to_chat(World, user_id, chat_id, sadd_ok)
              twice == add_user_to_chat(once, user_id, chat_id, sadd_ok)
          IN  /\ twice = once
              /\ str(user_id) \in once.cmc[str(chat_id)]
              /\ sadd_ok => encode(str(user_id)) \in
                               redis_smembers(once.redis, MembersKey(str(chat_id)))
    /\ last.op = "add" =>
          /\ add_user_to_chat(World, last.user, last.chat, last.sadd_ok) = World
          /\ str(last.user) \in chat_members_cache[str(last.chat)]
          /\ last.sadd_ok => encode(str(last.user)) \in
                                redis_smembers(redis, MembersKey(str(last.chat)))

\* C12, its case: a user was added to a chat that has other members, in the
\* cache and in the store.
C12_Witness ==
    /\ last.op = "add" /\ last.sadd_ok
    /\ str(last.user) \in chat_members_cache[str(last.chat)]
    /\ encode(str(last.user)) \in redis_smembers(redis, MembersKey(str(last.chat)))
    /\ Cardinality(chat_members_cache[str(last.chat)]) > 1

\* C13 as it is stated: when a call of the store raises during the refresh
\* that an inbound message triggered, no error leaves the handling of the
\* message and what the two caches held before the refresh is still there.
C13_RefreshFailureKeepsCache ==
    [][ /\ used'.ops = used.ops + 1
        /\ handling'.pc # "idle"
        /\ handling'.refresh_failed > 0
        => /\ handling'.rejected # "raised"
           /\ \A u \in DOMAIN user_settings_cache :
                 /\ u \in DOMAIN user_settings_cache'
                 /\ user_settings_cache'[u] = user_settings_cache[u]
           /\ \A c \in DOMAIN chat_members_cache :
                 /\ c \in DOMAIN chat_members_cache'
                 /\ chat_members_cache[c] \subseteq chat_members_cache'[c] ]_vars

\* a step that is a call of update_user_settings whose write to the store
\* raised
FailedSetStep ==
    /\ used'.ops = used.ops + 1
    /\ last'.op = "set" /\ ~last'.raised /\ ~last'.save_ok

\* C14 as it is stated: a call of update_user_settings whose write to the
\* store fails does not raise and leaves the cached record of the user,
\* every other cache entry and the staleness clock as they were before the
\* call.
C14_FailedSetChangesNoCache ==
    [][FailedSetStep =>
          /\ last'.reply = "done"
          /\ user_settings_cache' = user_settings_cache
          /\ chat_members_cache' = chat_members_cache
          /\ cache_last_updated' = cache_last_updated]_vars

\* C14, amended: a call of update_user_settings whose write to the store
\* fails does not raise, does not write again, and leaves every other
\* user's cache entry, the membership cache and the staleness clock as they
\* were; the user's cache entry and persisted record are as the
\* get_user_settings call inside it left them (the entry may have been
\* created or reloaded by that call) and hold the values from before, not
\* the new value.
C14_FailedSetKeepsOldValues ==
    [][FailedSetStep =>
          LET u == str(last'.user)
          IN  /\ last'.reply = "done"
              /\ \A v \in (DOMAIN user_settings_cache \cup DOMAIN user_settings_cache') \ {u} :
                    /\ v \in DOMAIN user_settings_cache
                    /\ v \in DOMAIN user_settings_cache'
                    /\ user_settings_cache'[v] = user_settings_cache[v]
              /\ chat_members_cache' = chat_members_cache
              /\ cache_last_updated' = cache_last_updated
              /\ last_advance' = last_advance
              /\ user_settings_cache'[u] = last'.got
              /\ redis_get(redis', UserKey(u)) = encode(json_dumps(last'.got))
              /\ \A k \in DOMAIN redis : redis'[k] = redis[k]
              /\ last'.path = "cache" =>
                    /\ user_settings_cache' = user_settings_cache
                    /\ redis' = redis]_vars

\* C14, its case: the write of a new value failed; the cache and the store
\* hold the old values and the clock has not moved.
C14_Witness ==
    /\ last.op = "set" /\ ~last.raised /\ ~last.save_ok
    /\ last.got[last.key] # last.value
    /\ user_settings_cache[str(last.user)] = last.got
    /\ redis_get(redis, UserKey(str(last.user))) = encode(json_dumps(last.got))
    /\ last.at - last_advance = last.elapsed

\* a step that is a call of update_user_settings whose write to the store
\* succeeded
SavedSetStep ==
    /\ used'.ops = used.ops + 1
    /\ last'.op = "set" /\ last'.saved

\* C15: after a call of update_user_settings whose write succeeded, the
\* persisted and the cached record of the user are equal, hold the value in
\* the field that was set and, in the other field, what get_user_settings
\* returned just before the write; no other user's cached or persisted
\* record and no membership changes.
C15_SetWritesOneRecord ==
    [][SavedSetStep =>
          LET u == str(last'.user)
              settings == [last'.got EXCEPT ![last'.key] = last'.value]
          IN  /\ user_settings_cache'[u] = settings
              /\ redis_get(redis', UserKey(u)) = encode(json_dumps(settings))
              /\ json_loads(redis_get(redis', UserKey(u))) = user_settings_cache'[u]
              /\ user_settings_cache'[u][last'.key] = last'.value
              /\ \A k \in DOMAIN settings \ {last'.key} :
                    user_settings_cache'[u][k] = last'.got[k]
              /\ DOMAIN user_settings_cache' = DOMAIN user_settings_cache \cup {u}
              /\ \A v \in DOMAIN user_settings_cache \ {u} :
                    user_settings_cache'[v] = user_settings_cache[v]
              /\ DOMAIN redis' = DOMAIN redis \cup {UserKey(u)}
              /\ \A k \in DOMAIN redis \ {UserKey(u)} : redis'[k] = redis[k]
              /\ chat_members_cache' = chat_members_cache]_vars

\* C15, its case: the mode of a user who has a language was changed and
\* written, with another user in the cache.
C15_Witness ==
    /\ last.op = "set" /\ last.saved
    /\ last.key = "mode" /\ last.got.mode # last.value
    /\ last.got.language \in Languages
    /\ user_settings_cache[str(last.user)] = [last.got EXCEPT !.mode = last.value]
    /\ Cardinality(DOMAIN user_settings_cache) > 1

\* C16: a call of update_user_settings whose write succeeded sets the one
\* staleness clock to its time, also when the cache was stale before and no
\* refresh has run: from then on the cache is not stale, and a call of
\* refresh_cache_if_needed refreshes nothing, until more than the TTL has
\* passed since the write, and it refreshes after that.
C16_SetMakesCacheFresh ==
    last.op = "set" /\ last.saved =>
        /\ cache_last_updated = last.at
        /\ last_advance = last.at
        /\ \A t \in {last.at, last.at + TickStep, last.at + CACHE_TTL} :
              /\ ~is_cache_stale(World, t)
              /\ ~refresh_cache_if_needed(World, t, NoFailure(redis)).refreshed
              /\ refresh_cache_if_needed(World, t, NoFailure(redis)).w = World
        /\ refresh_cache_if_needed(World, last.at + CACHE_TTL + 1,
                                   NoFailure(redis)).refreshed

\* C16, its case: the write came when the cache was stale and no refresh
\* had run, and the cache holds other users' entries from before.
C16_Witness ==
    /\ last.op = "set" /\ last.saved
    /\ last.elapsed > CACHE_TTL
    /\ cache_last_updated = last.at
    /\ last.at > StartTime
    /\ Cardinality(DOMAIN user_settings_cache) > 1

\* the worlds that differ from the present one in what the settings cache
\* holds for a user, and the present one
CacheVariants(user_id) ==
    {World} \cup {[World EXCEPT !.usc = (str(user_id) :> d) @@ @] : d \in SettingsDicts}

\* C17: get_user_settings returns the cached record without a call of the
\* store exactly when the user is cached and at most the TTL has passed on
\* the staleness clock; otherwise it reads the store, returns the record
\* that is persisted for the user (the default it has just persisted when
\* there was none) and puts it into the cache in place of the entry, so an
\* entry of a stale cache that differs from the store is not returned.
C17_GetReadsCacheOnlyWhenFresh ==
    /\ \A user_id \in UserIds, t \in {now, now + CACHE_TTL, now + CACHE_TTL + 1} :
          \A w \in CacheVariants(user_id) :
            LET u == str(user_id)
                got == get_user_settings(w, user_id, t, TRUE, TRUE)
                hit == u \in DOMAIN w.usc /\ t - w.clu <= CACHE_TTL
                persisted == redis_get(w.redis, UserKey(u))
            IN  /\ ~got.raised
                /\ got.reads = 0 <=> hit
                /\ hit => got.ret.val = w.usc[u] /\ got.w = w
                /\ ~hit =>
                      /\ got.ret.val = json_loads(redis_get(got.w.redis, UserKey(u)))
                      /\ got.w.usc[u] = got.ret.val
                      /\ persisted # Nil =>
                            /\ got.ret.val = json_loads(persisted)
                            /\ got.w.redis = w.redis
    /\ last.op = "get" /\ ~last.raised =>
          /\ last.path = "cache" <=> last.reads = 0
          /\ last.path = "cache" => last.elapsed <= CACHE_TTL /\ last.ret = last.cached
          /\ last.elapsed > CACHE_TTL => last.reads = 1
          /\ last.reads = 1 =>
                /\ last.ret = json_loads(redis_get(redis, UserKey(str(last.user))))
                /\ user_settings_cache[str(last.user)] = last.ret

\* C17, its case: a call for a cached user made after the TTL read the
\* store and returned the persisted record.
C17_Witness ==
    /\ last.op = "get" /\ last.path = "store"
    /\ last.elapsed > CACHE_TTL
    /\ last.reads = 1 /\ last.writes = 0
    /\ last.ret.language \in Languages
    /\ last.cached = last.ret

\* C18 as it is stated: the handling of an inbound event that is rejected
\* because the chat is no group or the message has no text neither registers
\* the sender nor runs the refresh: it leaves the membership cache, the
\* persisted membership, the settings cache and the staleness clock as they
\* were.
C18_RejectedEventChangesNothing ==
    [][ /\ used'.ops = used.ops + 1
        /\ handling'.pc # "idle"
        /\ handling'.rejected \in {"not_group", "no_message", "no_text"}
        => /\ ~handling'.refreshed
           /\ ~handling'.registered
           /\ chat_members_cache' = chat_members_cache
           /\ user_settings_cache' = user_settings_cache
           /\ cache_last_updated' = cache_last_updated
           /\ \A c \in GroupIds :
                 redis_smembers(redis', MembersKey(str(c)))
                    = redis_smembers(redis, MembersKey(str(c))) ]_vars

\* the translation for member u fell back to the message because the call
\* of the remote model failed, or is empty, or equals the message
NothingToSend(u) ==
    \/ handling.seen[u].response.kind = "raise"
    \/ handling.seen[u].translated = <<>>
    \/ handling.seen[u].translated = handling.text

\* C19: for an eligible member whose translation fell back to the message
\* because the remote call failed, or is empty, or equals the message, no
\* reply is dispatched and no translation is counted: the count of sent
\* translations goes up only with a reply, in the step that dispatches it.
C19_NoReplyWithoutTranslation ==
    /\ [](InHandling =>
            /\ \A u \in Attempted :
                  NothingToSend(u) =>
                      /\ handling.seen[u].step = "no_translation"
                      /\ \A r \in handling.replies : r.for # u
            /\ handling.translation_count = Cardinality(handling.replies)
            /\ handling.translation_count =
                  Cardinality({u \in Attempted : ~NothingToSend(u)
                                 /\ handling.seen[u].step = "sent"}))
    /\ [][handling.pc = "loop" =>
            \A u \in DOMAIN handling'.seen \ DOMAIN handling.seen :
                \/ handling'.seen[u].response.kind \in {"raise", "none"}
                \/ handling'.seen[u].translated = <<>>
                \/ handling'.seen[u].translated = handling.text
                => /\ handling'.translation_count = handling.translation_count
                   /\ handling'.replies = handling.replies]_vars

\* C19, its case: of two eligible members one got the reply and for the
\* other the remote call failed, so translate_text returned the message.
C19_Witness ==
    /\ HandledToTheEnd
    /\ handling.translation_count = 1
    /\ \E u \in Attempted :
          /\ handling.seen[u].response.kind = "raise"
          /\ handling.seen[u].translated = handling.text
          /\ u \in EligibleMembers
          /\ \A r \in handling.replies : r.for # u

\* the member sets that the store holds, by chat
PersistedMembers(r) ==
    [c \in {k[2] : k \in redis_scan(r)} |->
        {decode(m) : m \in redis_smembers(r, MembersKey(c))}]

\* the settings records that the store holds for the members of its chats
PersistedSettings(r) ==
    LET members == UNION {PersistedMembers(r)[c] : c \in DOMAIN PersistedMembers(r)}
    IN  [u \in {v \in members : UserKey(v) \in DOMAIN r} |->
            json_loads(redis_get(r, UserKey(u)))]

\* the caches of w are what the store holds and the clock shows time t
Rebuilt(w, t) ==
    /\ w.cmc = PersistedMembers(w.redis)
    /\ w.usc = PersistedSettings(w.redis)
    /\ w.clu = t

\* C20: when the full refresh runs with every call of the store succeeding
\* and nothing in between, the membership cache then holds for every
\* persisted membership key the persisted member set and nothing else, the
\* settings cache holds for every such member with a persisted record that
\* record and nothing else, and the staleness clock shows the time of the
\* refresh.
C20_RefreshRebuildsCaches ==
    /\ \A t \in {now, now + CACHE_TTL + 1} :
          LET res == refresh_cache_if_needed(World, t, NoFailure(redis))
          IN  res.refreshed =>
                  /\ ~res.raised /\ res.failed = 0
                  /\ res.w.redis = redis
                  /\ Rebuilt(res.w, t)
    /\ last.op = "refresh" /\ last.refreshed /\ last.failed = 0
          => Rebuilt(World, last.at)
    /\ /\ InHandling /\ handling.refreshed /\ handling.refresh_failed = 0
       /\ handling.rejected \in {"not_group", "no_message"}
       => Rebuilt(World, handling.at)

\* C20, its case: a refresh triggered after the TTL by a message that was
\* then rejected rebuilt both caches from a store with members and records.
C20_Witness ==
    /\ InHandling /\ handling.refreshed /\ handling.refresh_failed = 0
    /\ handling.rejected = "not_group"
    /\ handling.elapsed > CACHE_TTL /\ handling.at > StartTime
    /\ cache_last_updated = handling.at
    /\ DOMAIN user_settings_cache # {}
    /\ \E c \in DOMAIN chat_members_cache :
          DOMAIN user_settings_cache # chat_members_cache[c]

\* both calls have returned or raised
BothFinished == \A h \in Handlers : handling[h].pc \in Finished

BothRefreshed ==
    \A h \in Handlers : handling[h].observed /\ handling[h].pc = "add_test"

\* C22: when two handlers both find the cache stale before either has
\* finished refreshing, each resets the caches and scans once, and once both
\* refreshes have completed, with no call of the store raising and no write
\* in between, the two caches hold what the store holds and the cache is
\* fresh.
C22_ConcurrentRefreshesRebuild ==
    BothRefreshed /\ used.failures = 0 =>
        /\ \A h \in Handlers : handling[h].resets = 1 /\ handling[h].scans = 1
        /\ Rebuilt(World, now)
        /\ now - cache_last_updated <= CACHE_TTL

\* C22, its case: two refreshes of a store with members and records, begun
\* when the caches of the last refresh had gone stale, have both completed.
C22_Witness ==
    /\ BothRefreshed /\ used.failures = 0
    /\ \A h \in Handlers : handling[h].resets = 1 /\ handling[h].scans = 1
    /\ now > StartTime
    /\ DOMAIN user_settings_cache # {}
    /\ \E c \in DOMAIN chat_members_cache :
          DOMAIN user_settings_cache # chat_members_cache[c]

\* every settings record of the cache and of the store has a mode that is
\* overlay or off, and a user without a record is given the mode off
ModesValid ==
    /\ \A u \in DOMAIN user_settings_cache :
          user_settings_cache[u].mode \in {"overlay", "off"}
    /\ \A key \in DOMAIN redis :
          key[1] = "user" =>
              \E language \in Languages \cup {None}, mode \in {"overlay", "off"} :
                  decode(redis[key]) =
                      json_dumps([language |-> language, mode |-> mode])
    /\ \A user_id \in UserIds :
          UserKey(str(user_id)) \notin DOMAIN redis =>
              get_user_settings(World, user_id, now, TRUE, TRUE).ret.val.mode = "off"

\* a /setmode command has just been handled
SetModeStep ==
    /\ used'.ops = used.ops + 1
    /\ last'.op \in {"usage", "set"}
    /\ last'.key = "mode"

\* the command changed no settings record, no cache entry and not the clock
NothingChanged ==
    UNCHANGED <<user_settings_cache, chat_members_cache, cache_last_updated,
                redis, last_advance>>

\* C23, as stated: every cached and every persisted settings record has a
\* mode that is overlay or off, and a /setmode whose argument is missing or
\* is neither "overlay" nor "off" gets a corrective reply and changes no
\* settings record, no cache entry and not the staleness clock.
C23_ModeIsOverlayOrOff_Exact ==
    /\ []ModesValid
    /\ [][SetModeStep /\ (\/ last'.args = <<>>
                          \/ last'.args[1] \notin {"overlay", "off"})
            => /\ last'.op = "usage"
               /\ last'.reply \in {"usage", "invalid"}
               /\ NothingChanged]_vars

\* C23, amended: every cached and every persisted settings record has a mode
\* that is overlay or off, and a /setmode whose argument is missing or is, in
\* lower case, neither "overlay" nor "off" gets a corrective reply and
\* changes no settings record, no cache entry and not the staleness clock.
C23_ModeIsOverlayOrOff ==
    /\ []ModesValid
    /\ [][SetModeStep /\ (\/ last'.args = <<>>
                          \/ str_lower(last'.args[1]) \notin {"overlay", "off"})
            => /\ last'.op = "usage"
               /\ last'.reply \in {"usage", "invalid"}
               /\ NothingChanged]_vars

\* C23, its case: /setmode loud was answered with the corrective reply while
\* the cache held records.
C23_Witness ==
    /\ last.op = "usage" /\ last.key = "mode"
    /\ last.args = <<"loud">> /\ last.reply = "invalid"
    /\ DOMAIN user_settings_cache # {}
    /\ \E key \in DOMAIN redis : key[1] = "user"

====
